---- MODULE Spec2Model ----
(***************************************************************************)
(* Model of github.com/lestrrat-go/byteslice: the Buffer type of           *)
(* byteslice.go (lock-guarded revision) and the codec registry that goes   *)
(* with it (B64Decoder / B64Encoder, the global defaults and the           *)
(* heuristic default decoder).                                             *)
(*                                                                         *)
(* Text is a sequence of character codes (ASCII), a []byte is a sequence   *)
(* of numbers 0..255.  A Go slice is [arr, len] over a heap of backing     *)
(* arrays whose length is the slice's capacity; arr = 0 is the nil slice.  *)
(***************************************************************************)
EXTENDS Integers, Sequences, FiniteSets, TLC

\* ------------------------------------------------------------------ bounds

\* Longest []byte that is encoded, decoded and marshalled (DecodePayloads,
\* RoundPayloads).
MaxLen == 3

\* Longest []byte the caller hands over where storage is followed
\* (StorePayloads, AliasPayloads).
MaxData == 1

\* Longest text handed to the default decoder directly (HeurTexts).
MaxText == 5

\* ------------------------------------------------------- encoding/base64

PadChar   == 61   \* '='
CharPlus  == 43   \* '+'
CharSlash == 47   \* '/'
CharMinus == 45   \* '-'
CharUnder == 95   \* '_'
CharQuote == 34   \* '"'
CharBSlash == 92  \* '\'
CharLF    == 10
CharCR    == 13

\* The four *base64.Encoding values the package works with.
Encodings == {"Std", "RawStd", "URL", "RawURL"}

IsURLAlphabet(enc) == enc \in {"URL", "RawURL"}
IsPadded(enc)      == enc \in {"Std", "URL"}

\* enc.encode[i]: the character of 6-bit value i.
EncodeChar(enc, i) ==
  IF i < 26 THEN 65 + i
  ELSE IF i < 52 THEN 97 + (i - 26)
  ELSE IF i < 62 THEN 48 + (i - 52)
  ELSE IF i = 62 THEN (IF IsURLAlphabet(enc) THEN CharMinus ELSE CharPlus)
  ELSE (IF IsURLAlphabet(enc) THEN CharUnder ELSE CharSlash)

\* enc.decodeMap[c]: the 6-bit value of character c, 255 when c is not in
\* the alphabet.
DecodeMap(enc, c) ==
  IF c >= 65 /\ c <= 90 THEN c - 65
  ELSE IF c >= 97 /\ c <= 122 THEN c - 97 + 26
  ELSE IF c >= 48 /\ c <= 57 THEN c - 48 + 52
  ELSE IF c = (IF IsURLAlphabet(enc) THEN CharMinus ELSE CharPlus) THEN 62
  ELSE IF c = (IF IsURLAlphabet(enc) THEN CharUnder ELSE CharSlash) THEN 63
  ELSE 255

\* (*Encoding).EncodeToString: 3 bytes to 4 characters, the remainder of 1
\* or 2 bytes to 2 or 3 characters, padded with '=' when enc pads.
RECURSIVE EncodeToString(_, _)
EncodeToString(enc, src) ==
  LET n == Len(src) IN
  IF n = 0 THEN << >>
  ELSE IF n >= 3 THEN
    LET val == src[1] * 65536 + src[2] * 256 + src[3] IN
    << EncodeChar(enc, (val \div 262144) % 64),
       EncodeChar(enc, (val \div 4096) % 64),
       EncodeChar(enc, (val \div 64) % 64),
       EncodeChar(enc, val % 64) >> \o EncodeToString(enc, SubSeq(src, 4, n))
  ELSE IF n = 2 THEN
    LET val == src[1] * 65536 + src[2] * 256 IN
    << EncodeChar(enc, (val \div 262144) % 64),
       EncodeChar(enc, (val \div 4096) % 64),
       EncodeChar(enc, (val \div 64) % 64) >>
      \o (IF IsPadded(enc) THEN << PadChar >> ELSE << >>)
  ELSE
    LET val == src[1] * 65536 IN
    << EncodeChar(enc, (val \div 262144) % 64),
       EncodeChar(enc, (val \div 4096) % 64) >>
      \o (IF IsPadded(enc) THEN << PadChar, PadChar >> ELSE << >>)

\* (*Encoding).DecodedLen: the size of the buffer DecodeString allocates.
DecodedLen(enc, n) ==
  IF IsPadded(enc) THEN (n \div 4) * 3 ELSE (n * 6) \div 8

IsNewline(c) == c = CharLF \/ c = CharCR

\* Skip the newlines at the front of src.
RECURSIVE SkipNewlines(_)
SkipNewlines(src) ==
  IF src # << >> /\ IsNewline(Head(src)) THEN SkipNewlines(Tail(src)) ELSE src

\* The bytes of one quantum: dbuf holds j 6-bit values (2 <= j <= 4).
QuantumBytes(dbuf) ==
  LET j   == Len(dbuf)
      d   == [i \in 1..4 |-> IF i <= j THEN dbuf[i] ELSE 0]
      val == d[1] * 262144 + d[2] * 4096 + d[3] * 64 + d[4]
      b   == << (val \div 65536) % 256, (val \div 256) % 256, val % 256 >>
  IN SubSeq(b, 1, j - 1)

\* (*Encoding).decodeQuantum: reads up to 4 alphabet characters from src
\* (newlines skipped), handles the padding, and yields
\* [out: the bytes decoded, rest: the text left, err: whether it failed].
\* As in the library a quantum cut short by trailing garbage after its
\* padding is still written and the error reported with it.
RECURSIVE decodeQuantum(_, _, _)
decodeQuantum(enc, src, dbuf) ==
  LET j == Len(dbuf) IN
  IF j = 4 THEN [out |-> QuantumBytes(dbuf), rest |-> src, err |-> FALSE]
  ELSE IF src = << >> THEN
    IF j = 0 THEN [out |-> << >>, rest |-> << >>, err |-> FALSE]
    ELSE IF j = 1 \/ IsPadded(enc) THEN [out |-> << >>, rest |-> << >>, err |-> TRUE]
    ELSE [out |-> QuantumBytes(dbuf), rest |-> << >>, err |-> FALSE]
  ELSE
    LET in == Head(src)
        v  == DecodeMap(enc, in)
    IN
    IF v # 255 THEN decodeQuantum(enc, Tail(src), Append(dbuf, v))
    ELSE IF IsNewline(in) THEN decodeQuantum(enc, Tail(src), dbuf)
    ELSE IF ~IsPadded(enc) \/ in # PadChar THEN
      [out |-> << >>, rest |-> Tail(src), err |-> TRUE]
    ELSE IF j < 2 THEN [out |-> << >>, rest |-> Tail(src), err |-> TRUE]
    ELSE
      LET after1 == IF j = 2 THEN SkipNewlines(Tail(src)) ELSE Tail(src) IN
      IF j = 2 /\ (after1 = << >> \/ Head(after1) # PadChar)
      THEN [out |-> << >>, rest |-> after1, err |-> TRUE]
      ELSE
        LET after2 == SkipNewlines(IF j = 2 THEN Tail(after1) ELSE after1) IN
        [out |-> QuantumBytes(dbuf), rest |-> after2, err |-> after2 # << >>]

\* (*Encoding).Decode: quantum after quantum, stopping at the first error
\* with the bytes decoded so far.  decodeRest goes on from the quantum q.
RECURSIVE Decode(_, _)
RECURSIVE decodeRest(_, _)
Decode(enc, src) ==
  IF src = << >> THEN [out |-> << >>, err |-> FALSE]
  ELSE decodeRest(enc, decodeQuantum(enc, src, << >>))

PrependOut(bytes, r) == [out |-> bytes \o r.out, err |-> r.err]

decodeRest(enc, q) ==
  IF q.err THEN [out |-> q.out, err |-> TRUE]
  ELSE PrependOut(q.out, Decode(enc, q.rest))

\* What DecodeString returns for the outcome r of Decode: buf is dbuf[:n] of
\* a buffer of cap bytes, and holds the partial result when err.
DecodeResult(r, cap) == [buf |-> r.out, cap |-> cap, err |-> r.err, panic |-> FALSE]

\* (*Encoding).DecodeString
EncDecodeString(enc, s) == DecodeResult(Decode(enc, s), DecodedLen(enc, Len(s)))

\* ------------------------------------------------------------ codecs

\* A B64Decoder / B64Encoder value: one of the four encodings, the
\* heuristic B64DecoderFunc(defaultDecodeString), or the nil interface.
Nil        == "nil"
DefaultDec == "Default"
Decoders   == Encodings \cup {DefaultDec}
Encoders   == Encodings

\* strings.HasSuffix(src, "=")
HasSuffixPad(src) == src # << >> /\ src[Len(src)] = PadChar

\* strings.ContainsAny(src, "+/")
ContainsAnyPlusSlash(src) == \E i \in 1..Len(src) : src[i] \in {CharPlus, CharSlash}

\* defaultDecodeString without its two tests of the text.
alwaysStdEncodingOf(src) == "Std"

\* The encoding the switch of defaultDecodeString selects.
defaultEncodingOf(src) ==
  LET isRaw == ~HasSuffixPad(src)
      isURL == ~ContainsAnyPlusSlash(src)
  IN IF isRaw /\ isURL THEN "RawURL"
     ELSE IF isURL THEN "URL"
     ELSE IF isRaw THEN "RawStd"
     ELSE "Std"

\* defaultDecodeString trying base64.StdEncoding when the encoding it
\* selected fails.
retryWithStd(r, src) == IF r.err THEN EncDecodeString("Std", src) ELSE r

defaultDecodeStringRetrying(src) ==
  retryWithStd(EncDecodeString(defaultEncodingOf(src), src), src)

defaultDecodeString(src) == EncDecodeString(defaultEncodingOf(src), src)

\* dec.DecodeString(s) through the B64Decoder interface; a nil interface
\* value panics on the method call.
DecodeString(dec, s) ==
  IF dec = Nil THEN [buf |-> << >>, cap |-> 0, err |-> FALSE, panic |-> TRUE]
  ELSE IF dec = DefaultDec THEN defaultDecodeString(s)
  ELSE EncDecodeString(dec, s)

\* ---------------------------------------------------------- encoding/json

\* The character an escape \c stands for, 0 when \c is no escape.  \u is
\* left out: no input of the model holds it.
Unescape(c) ==
  IF c \in {CharQuote, CharBSlash, CharSlash} THEN c
  ELSE IF c = 98 THEN 8 ELSE IF c = 102 THEN 12 ELSE IF c = 110 THEN 10
  ELSE IF c = 114 THEN 13 ELSE IF c = 116 THEN 9 ELSE 0

\* The inside of a string literal: [ok, s].
PrependChar(c, r) == [ok |-> r.ok, s |-> << c >> \o r.s]

RECURSIVE UnquoteBody(_)
UnquoteBody(t) ==
  IF t = << >> THEN [ok |-> TRUE, s |-> << >>]
  ELSE IF Head(t) = CharQuote \/ Head(t) < 32 THEN [ok |-> FALSE, s |-> << >>]
  ELSE IF Head(t) = CharBSlash THEN
    IF Len(t) < 2 \/ Unescape(t[2]) = 0 THEN [ok |-> FALSE, s |-> << >>]
    ELSE PrependChar(Unescape(t[2]), UnquoteBody(SubSeq(t, 3, Len(t))))
  ELSE PrependChar(Head(t), UnquoteBody(Tail(t)))

JSONNull == << 110, 117, 108, 108 >>   \* null

\* json.Unmarshal(data, &raw) with raw a string: a string literal gives its
\* content, null leaves raw empty, anything else is an error.
JSONUnmarshalString(data) ==
  IF data = JSONNull THEN [ok |-> TRUE, s |-> << >>]
  ELSE IF Len(data) >= 2 /\ data[1] = CharQuote /\ data[Len(data)] = CharQuote
    THEN UnquoteBody(SubSeq(data, 2, Len(data) - 1))
  ELSE [ok |-> FALSE, s |-> << >>]

\* json.Marshal(s) of a string: '"' and '\' are escaped with a backslash,
\* line feed and carriage return as \n and \r, and the result is framed in
\* quotes (the other control characters and the HTML characters, escaped as
\* \u00XX, occur in no input of the model).
RECURSIVE QuoteBody(_)
QuoteBody(s) ==
  IF s = << >> THEN << >>
  ELSE IF Head(s) \in {CharQuote, CharBSlash} THEN << CharBSlash, Head(s) >> \o QuoteBody(Tail(s))
  ELSE IF Head(s) = CharLF THEN << CharBSlash, 110 >> \o QuoteBody(Tail(s))
  ELSE IF Head(s) = CharCR THEN << CharBSlash, 114 >> \o QuoteBody(Tail(s))
  ELSE << Head(s) >> \o QuoteBody(Tail(s))

JSONQuote(s) == << CharQuote >> \o QuoteBody(s) \o << CharQuote >>

\* ------------------------------------------------------------------ state

BufSeq == << "a", "b" >>  \* the Buffer objects of the program
Bufs   == {BufSeq[k] : k \in 1..Len(BufSeq)}
NilBuf == "nilptr"        \* a nil *Buffer receiver
ArrIds == 1..(Cardinality(Bufs) + 3)

VARIABLES
  heap,           \* backing arrays: ArrIds -> sequence of bytes (its length is the capacity)
  data,           \* Buffer.data: Bufs -> [arr, len]
  decoder,        \* Buffer.decoder: Bufs -> codec or Nil
  encoder,        \* Buffer.encoder: Bufs -> codec or Nil
  mu,             \* Buffer.mu: Bufs -> [w: held for writing, r: number of readers]
  globalDecoder,  \* the registry's default decoder
  globalEncoder,  \* the registry's default encoder
  ext,            \* the []byte the caller holds and passes in: [arr, len]
  last,           \* the most recent call: what was called, with what, and what came back
  setLog,         \* the argument of the most recent call to each codec setter
  globalMu,       \* the registry's globalMu: [w, r]
  procs           \* the callers sharing the Buffers: where each one is in its call

vars == << heap, data, decoder, encoder, mu, globalDecoder, globalEncoder, ext, last, setLog,
           globalMu, procs >>

NilSlice == [arr |-> 0, len |-> 0]

\* cap(s), and the bytes s[0:len(s)]
Cap(h, s)        == IF s.arr = 0 THEN 0 ELSE Len(h[s.arr])
SliceBytes(h, s) == IF s.arr = 0 THEN << >> ELSE SubSeq(h[s.arr], 1, s.len)

Zeros(n) == [i \in 1..n |-> 0]
Min(x, y) == IF x < y THEN x ELSE y

\* The arrays some slice of the program refers to: the Buffers' data (d)
\* and the arrays the caller holds (live).  The others are garbage.
Referenced(d, live) == ({d[b].arr : b \in Bufs} \cup live) \ {0}

\* make([]byte, ...): an array nothing refers to.
FreshArr(d, live) ==
  CHOOSE i \in ArrIds : i \notin Referenced(d, live)
                        /\ \A j \in ArrIds : j \notin Referenced(d, live) => i <= j

\* The garbage collector: an array nothing refers to is gone.
Collect(h, d, live) == [i \in ArrIds |-> IF i \in Referenced(d, live) THEN h[i] ELSE << >>]

\* Addresses carry no meaning: the arrays are numbered in the order the
\* Buffers (in BufSeq order) and then the caller's slice refer to them, and
\* garbage is dropped.  Yields the heap, the data fields and the caller's
\* slice so numbered.
Normalize(h, d, e) ==
  LET n       == Len(BufSeq)
      slot(k) == IF k <= n THEN d[BufSeq[k]].arr ELSE e.arr
      refs    == Referenced(d, {e.arr})
      first(x) == CHOOSE k \in 1..(n + 1) : slot(k) = x /\ \A j \in 1..(k - 1) : slot(j) # x
      newid(x) == IF x = 0 THEN 0
                  ELSE Cardinality({y \in refs : first(y) <= first(x)})
  IN [heap |-> [i \in ArrIds |-> IF \E x \in refs : newid(x) = i
                                   THEN h[CHOOSE x \in refs : newid(x) = i]
                                   ELSE << >>],
      data |-> [b \in Bufs |-> [arr |-> newid(d[b].arr), len |-> d[b].len]],
      ext  |-> [arr |-> newid(e.arr), len |-> e.len]]

\* The program's memory after a step: st is [heap, data], e the caller's
\* slice.
StoreNorm(m) ==
  /\ heap' = m.heap
  /\ data' = m.data
  /\ ext' = m.ext

Store(st, e) == StoreNorm(Normalize(st.heap, st.data, e))

\* sync.RWMutex
Unlocked    == [w |-> FALSE, r |-> 0]
CanLock(m)  == ~m.w /\ m.r = 0
CanRLock(m) == ~m.w

\* What a call reports.  err is "nil" or the kind of error (for a call that
\* has not returned, the value it is about to return); at is "returned", or
\* where the call waits forever: "entry" (its first Lock or RLock),
\* "arg" (the RLock of in.Bytes() inside AcceptValue) or "defer" (its
\* deferred call); out is the value returned.
\* An argument or a result of a call: nothing, a []byte or a text, a codec,
\* an int, a *Buffer, the name of a type.
NoVal       == [none |-> TRUE]
BytesVal(s) == [bytes |-> s]
CodecVal(c) == [codec |-> c]
IntVal(n)   == [int |-> n]
BufVal(b)   == [buf |-> b]
TypeVal(t)  == [type |-> t]
DecodedVal(r) == [decoded |-> r]

Call(op, recv, arg, err, at, out) ==
  [op |-> op, recv |-> recv, arg |-> arg, err |-> err, at |-> at, out |-> out]

NoCall == Call("none", "none", NoVal, "nil", "returned", NoVal)

\* The state after package initialisation (init() of the registry) with
\* every Buffer a zero value and the caller holding no slice.
\* The goroutines that share the Buffers and the registry.
Callers == {"g1", "g2"}

\* Where a caller is: at is "idle" between calls, else a point of the call
\* op(arg) it is in; on is the lock it waits for; held lists the locks it
\* holds, in the order it took them, as [lock, mode]; tmp is the value it
\* has read so far.
IdleProc == [at |-> "idle", op |-> "none", recv |-> "none", arg |-> NoVal,
             on |-> "none", held |-> << >>, tmp |-> NoVal]

InitState ==
  /\ heap = [i \in ArrIds |-> << >>]
  /\ data = [b \in Bufs |-> NilSlice]
  /\ decoder = [b \in Bufs |-> Nil]
  /\ encoder = [b \in Bufs |-> Nil]
  /\ mu = [b \in Bufs |-> Unlocked]
  /\ globalDecoder = DefaultDec
  /\ globalEncoder = "Std"
  /\ ext = NilSlice
  /\ setLog = [dec |-> [b \in Bufs |-> Nil], enc |-> [b \in Bufs |-> Nil],
               gdec |-> DefaultDec, genc |-> "Std"]
  /\ globalMu = Unlocked
  /\ procs = [t \in Callers |-> IdleProc]

Init == InitState /\ last = NoCall

\* --------------------------------------------------------------- helpers

\* b64DecoderNoLock without its fall back to the registry.
ownDecoderOnly(own, global) == own

\* b64DecoderNoLock asking the registry first.
globalDecoderFirst(own, global) == IF global # Nil THEN global ELSE own

\* (*Buffer).b64DecoderNoLock: the Buffer's own decoder, else
\* GlobalB64Decoder() as it is now.
b64DecoderNoLock(own, global) == IF own # Nil THEN own ELSE global

\* (*Buffer).b64EncoderNoLock
b64EncoderNoLock(own, global) == IF own # Nil THEN own ELSE global

\* A new backing array holding buf in its first bytes and cap bytes long, and
\* the slice over it; nothing is allocated for a capacity of 0.
AllocAt(h, a, buf, cap) ==
  [heap  |-> [h EXCEPT ![a] = [i \in 1..cap |-> IF i <= Len(buf) THEN buf[i] ELSE 0]],
   slice |-> [arr |-> a, len |-> Len(buf)]]

Alloc(h, d, live, buf, cap) ==
  IF cap = 0 THEN [heap |-> h, slice |-> NilSlice]
  ELSE AllocAt(h, FreshArr(d, live), buf, cap)

\* copy(dst, from): min(len(dst), len(from)) bytes go to the front of dst's
\* array.
copy(h, dst, from) ==
  IF Min(dst.len, Len(from)) = 0 THEN h
  ELSE [h EXCEPT ![dst.arr] =
          [i \in 1..Len(@) |-> IF i <= Min(dst.len, Len(from)) THEN from[i] ELSE @[i]]]

\* The assignment b.data = s followed by copy(b.data, from), in the heap m.
assignAndCopy(m, d, b, s, from) ==
  [heap |-> copy(m, s, from), data |-> [d EXCEPT ![b] = s]]

\* setBytesNoLock keeping the slice it is given instead of copying it.
setBytesKeepingSlice(h, d, live, b, src) == [heap |-> h, data |-> [d EXCEPT ![b] = src]]

\* (*Buffer).setBytesNoLock(data) for Buffer b and data the slice src:
\* b.data = make([]byte, l) only when cap(b.data) < l, then
\* copy(b.data, data).  Yields the heap and the data fields after it.
growAndCopy(m, d, b, l, from) ==
  assignAndCopy(m.heap, d, b, [arr |-> m.slice.arr, len |-> l], from)

setBytesNoLock(h, d, live, b, src) ==
  IF Cap(h, d[b]) < src.len
    THEN growAndCopy(Alloc(h, d, live, << >>, src.len), d, b, src.len, SliceBytes(h, src))
    ELSE assignAndCopy(h, d, b, d[b], SliceBytes(h, src))

\* The end of decodeAndSetStringNoLock, r being what DecodeString returned:
\* b.data = buf only when there is no error.
assignBuf(m, d, b) == [heap |-> m.heap, data |-> [d EXCEPT ![b] = m.slice], err |-> "nil"]

\* decodeAndSetStringNoLock storing what DecodeString returned before it
\* looks at the error.
setDecodedUnchecked(h, d, live, b, r) ==
  IF r.panic THEN [heap |-> h, data |-> d, err |-> "panic"]
  ELSE [assignBuf(Alloc(h, d, live, r.buf, r.cap), d, b)
          EXCEPT !.err = IF r.err THEN "decode" ELSE "nil"]

setDecoded(h, d, live, b, r) ==
  IF r.panic THEN [heap |-> h, data |-> d, err |-> "panic"]
  ELSE IF r.err THEN [heap |-> h, data |-> d, err |-> "decode"]
  ELSE assignBuf(Alloc(h, d, live, r.buf, r.cap), d, b)

\* (*Buffer).decodeAndSetStringNoLock(in) with the decoder dec already
\* resolved.
decodeAndSetStringNoLock(h, d, live, b, dec, in) ==
  setDecoded(h, d, live, b, DecodeString(dec, in))

\* A call that changes only what it reports.
Report(call) ==
  /\ last' = call
  /\ UNCHANGED << heap, data, ext >>

\* A call that leaves the memory st ([heap, data] and, from the helpers that
\* can fail, err) and reports call.
Effect(st, call) ==
  /\ Store(st, ext)
  /\ last' = call

\* ------------------------------------------------------------- the caller

\* The caller makes a []byte holding bytes.
CallerMakeDone(m) ==
  /\ Store([heap |-> m.heap, data |-> data], m.slice)
  /\ last' = Call("CallerMake", "none", NoVal, "nil", "returned", NoVal)

CallerMake(bytes) ==
  /\ CallerMakeDone(Alloc(heap, data, {}, bytes, Len(bytes)))
  /\ UNCHANGED << decoder, encoder, mu, globalDecoder, globalEncoder, setLog, globalMu, procs >>

\* The caller changes one byte of its []byte in place.
CallerWrite(i, v) ==
  /\ i \in 1..ext.len
  /\ heap[ext.arr][i] # v
  /\ heap' = [heap EXCEPT ![ext.arr][i] = v]
  /\ last' = Call("CallerWrite", "none", NoVal, "nil", "returned", NoVal)
  /\ UNCHANGED << data, decoder, encoder, mu, globalDecoder, globalEncoder, ext, setLog, globalMu, procs >>

\* ------------------------------------------------------------- the Buffer

\* b = New(data) with data the caller's slice: a new object whose buffer IS
\* the caller's slice.
New(b) ==
  /\ Store([heap |-> heap, data |-> [data EXCEPT ![b] = ext]], ext)
  /\ decoder' = [decoder EXCEPT ![b] = Nil]
  /\ encoder' = [encoder EXCEPT ![b] = Nil]
  /\ mu' = [mu EXCEPT ![b] = Unlocked]
  /\ setLog' = [setLog EXCEPT !.dec[b] = Nil, !.enc[b] = Nil]
  /\ last' = Call("New", b, NoVal, "nil", "returned", NoVal)
  /\ UNCHANGED << globalDecoder, globalEncoder, globalMu, procs >>

\* The []byte a call is given: the slice the caller holds (ArgExt), or a
\* slice made for the call and dropped after it (ArgLit(bytes)).
ArgExt        == [kind |-> "ext"]
ArgLit(bytes) == [kind |-> "lit", bytes |-> bytes]

\* The heap and the slice of such an argument.
ArgSlice(h, d, e, arg) ==
  IF arg.kind = "ext" THEN [heap |-> h, slice |-> e]
  ELSE Alloc(h, d, {e.arr}, arg.bytes, Len(arg.bytes))

ArgBytes(h, e, arg) == IF arg.kind = "ext" THEN SliceBytes(h, e) ELSE arg.bytes

\* What SetBytes reports as its argument: the bytes, and whose slice it was.
SetBytesArg(arg) == [kind |-> arg.kind, bytes |-> ArgBytes(heap, ext, arg)]

\* setBytesNoLock on the argument src ([heap, slice]); the argument's array
\* stays referenced while the call runs.
setBytesArg(src, b) ==
  setBytesNoLock(src.heap, data, {ext.arr, src.slice.arr}, b, src.slice)

\* (*Buffer).SetBytes(data)
SetBytes(b, arg) ==
  /\ IF CanLock(mu[b])
       THEN Effect(setBytesArg(ArgSlice(heap, data, ext, arg), b),
                   Call("SetBytes", b, SetBytesArg(arg), "nil", "returned", NoVal))
       ELSE Report(Call("SetBytes", b, SetBytesArg(arg), "nil", "entry", NoVal))
  /\ UNCHANGED << decoder, encoder, mu, globalDecoder, globalEncoder, setLog, globalMu, procs >>

\* (*Buffer).Bytes(): the live slice, nil for a nil receiver.
Bytes(b) ==
  /\ last' = IF b = NilBuf THEN Call("Bytes", b, NoVal, "nil", "returned", NilSlice)
             ELSE IF CanRLock(mu[b]) THEN Call("Bytes", b, NoVal, "nil", "returned", data[b])
             ELSE Call("Bytes", b, NoVal, "nil", "entry", NoVal)
  /\ UNCHANGED << heap, data, decoder, encoder, mu, globalDecoder, globalEncoder, ext, setLog, globalMu, procs >>

\* (*Buffer).Len()
Len_(b) ==
  /\ last' = IF b = NilBuf THEN Call("Len", b, NoVal, "nil", "returned", IntVal(0))
             ELSE IF CanRLock(mu[b]) THEN Call("Len", b, NoVal, "nil", "returned", IntVal(data[b].len))
             ELSE Call("Len", b, NoVal, "nil", "entry", NoVal)
  /\ UNCHANGED << heap, data, decoder, encoder, mu, globalDecoder, globalEncoder, ext, setLog, globalMu, procs >>

\* UnmarshalJSON once b.mu is held: raw is what json.Unmarshal made of the
\* text, dec the decoder resolved for this call.
UnmarshalDone(b, text, dec, r) ==
  Effect(r, Call("UnmarshalJSON", b, BytesVal(text), r.err, "returned", CodecVal(dec)))

UnmarshalLocked(b, text, raw, dec) ==
  IF ~raw.ok THEN Report(Call("UnmarshalJSON", b, BytesVal(text), "json", "returned", NoVal))
  ELSE UnmarshalDone(b, text, dec,
                     decodeAndSetStringNoLock(heap, data, {ext.arr}, b, dec, raw.s))

\* (*Buffer).UnmarshalJSON(text)
UnmarshalJSON(b, text) ==
  /\ IF b = NilBuf
       THEN Report(Call("UnmarshalJSON", b, BytesVal(text), "nilrecv", "returned", NoVal))
     ELSE IF ~CanLock(mu[b])
       THEN Report(Call("UnmarshalJSON", b, BytesVal(text), "nil", "entry", NoVal))
     ELSE UnmarshalLocked(b, text, JSONUnmarshalString(text),
                          b64DecoderNoLock(decoder[b], globalDecoder))
  /\ UNCHANGED << decoder, encoder, mu, globalDecoder, globalEncoder, setLog, globalMu, procs >>

\* (Buffer).MarshalJSON(): a value receiver, so no lock is taken.
MarshalWith(b, enc) ==
  Call("MarshalJSON", b, CodecVal(enc), "nil", "returned",
       BytesVal(JSONQuote(EncodeToString(enc, SliceBytes(heap, data[b])))))
MarshalJSON(b) ==
  /\ last' = MarshalWith(b, b64EncoderNoLock(encoder[b], globalEncoder))
  /\ UNCHANGED << heap, data, decoder, encoder, mu, globalDecoder, globalEncoder, ext, setLog, globalMu, procs >>

\* The arguments of AcceptValue: a *Buffer (nil included), a []byte, a
\* string, or a value of another type.
InBuffer(c)  == [kind |-> "buffer", buf |-> c]
InBytes(arg) == [kind |-> "bytes", arg |-> arg]
InString(s)  == [kind |-> "string", s |-> s]
InOther(t)   == [kind |-> "other", type |-> t]

\* in.Bytes() inside AcceptValue, b.mu being held: it takes in's read lock
\* unless in is nil, so it waits forever when in is b itself or is locked.
ArgBlocked(b, in) ==
  in.kind = "buffer" /\ in.buf # NilBuf /\ (in.buf = b \/ ~CanRLock(mu[in.buf]))

\* The switch of AcceptValue: the memory after it and the error to return.
Unchanged(err) == [heap |-> heap, data |-> data, err |-> err]

WithErr(st, err) == [heap |-> st.heap, data |-> st.data, err |-> err]

acceptSwitch(b, in) ==
  IF in.kind = "buffer" THEN
    IF ArgBlocked(b, in) THEN Unchanged("nil")
    ELSE WithErr(setBytesNoLock(heap, data, {ext.arr}, b,
                                IF in.buf = NilBuf THEN NilSlice ELSE data[in.buf]), "nil")
  ELSE IF in.kind = "bytes" THEN
    WithErr(setBytesArg(ArgSlice(heap, data, ext, in.arg), b), "nil")
  ELSE IF in.kind = "string" THEN
    decodeAndSetStringNoLock(heap, data, {ext.arr}, b,
                             b64DecoderNoLock(decoder[b], globalDecoder), in.s)
  ELSE Unchanged("type")

\* What the call reports as its argument.
AcceptArg(in) ==
  IF in.kind = "bytes" THEN [kind |-> "bytes", bytes |-> ArgBytes(heap, ext, in.arg)] ELSE in

\* The deferred call of AcceptValue, b.mu.Lock(), on the mutex as the body
\* left it (held): the call returns only if that Lock can be taken.
AcceptDeferred(b, in, held, r) ==
  /\ Effect(r, Call("AcceptValue", b, AcceptArg(in), r.err,
                    IF ArgBlocked(b, in) THEN "arg"
                    ELSE IF CanLock(held[b]) THEN "returned" ELSE "defer",
                    IF in.kind = "other" THEN TypeVal(in.type) ELSE NoVal))
  /\ mu' = held

\* (*Buffer).AcceptValue(in): b.mu.Lock(), defer b.mu.Lock(), the switch.
AcceptValue(b, in) ==
  /\ IF ~CanLock(mu[b])
       THEN /\ Report(Call("AcceptValue", b, AcceptArg(in), "nil", "entry", NoVal))
            /\ UNCHANGED mu
       ELSE AcceptDeferred(b, in, [mu EXCEPT ![b] = [w |-> TRUE, r |-> 0]], acceptSwitch(b, in))
  /\ UNCHANGED << decoder, encoder, globalDecoder, globalEncoder, setLog, globalMu, procs >>

\* (*Buffer).B64Decoder()
B64Decoder(b) ==
  /\ last' = IF CanRLock(mu[b])
               THEN Call("B64Decoder", b, NoVal, "nil", "returned",
                         CodecVal(b64DecoderNoLock(decoder[b], globalDecoder)))
               ELSE Call("B64Decoder", b, NoVal, "nil", "entry", NoVal)
  /\ UNCHANGED << heap, data, decoder, encoder, mu, globalDecoder, globalEncoder, ext, setLog, globalMu, procs >>

\* (*Buffer).B64Encoder()
B64Encoder(b) ==
  /\ last' = IF CanRLock(mu[b])
               THEN Call("B64Encoder", b, NoVal, "nil", "returned",
                         CodecVal(b64EncoderNoLock(encoder[b], globalEncoder)))
               ELSE Call("B64Encoder", b, NoVal, "nil", "entry", NoVal)
  /\ UNCHANGED << heap, data, decoder, encoder, mu, globalDecoder, globalEncoder, ext, setLog, globalMu, procs >>

\* (*Buffer).SetB64Decoder(dec)
SetB64Decoder(b, dec) ==
  /\ IF CanLock(mu[b])
       THEN /\ decoder' = [decoder EXCEPT ![b] = dec]
            /\ setLog' = [setLog EXCEPT !.dec[b] = dec]
            /\ last' = Call("SetB64Decoder", b, CodecVal(dec), "nil", "returned", BufVal(b))
       ELSE /\ last' = Call("SetB64Decoder", b, CodecVal(dec), "nil", "entry", NoVal)
            /\ UNCHANGED << decoder, setLog >>
  /\ UNCHANGED << heap, data, encoder, mu, globalDecoder, globalEncoder, ext, globalMu, procs >>

\* (*Buffer).SetEncoder(enc)
SetEncoder(b, enc) ==
  /\ IF CanLock(mu[b])
       THEN /\ encoder' = [encoder EXCEPT ![b] = enc]
            /\ setLog' = [setLog EXCEPT !.enc[b] = enc]
            /\ last' = Call("SetEncoder", b, CodecVal(enc), "nil", "returned", BufVal(b))
       ELSE /\ last' = Call("SetEncoder", b, CodecVal(enc), "nil", "entry", NoVal)
            /\ UNCHANGED << encoder, setLog >>
  /\ UNCHANGED << heap, data, decoder, mu, globalDecoder, globalEncoder, ext, globalMu, procs >>

\* ------------------------------------------------------------ the registry

SetGlobalB64Decoder(dec) ==
  /\ globalDecoder' = dec
  /\ setLog' = [setLog EXCEPT !.gdec = dec]
  /\ last' = Call("SetGlobalB64Decoder", "none", CodecVal(dec), "nil", "returned", NoVal)
  /\ UNCHANGED << heap, data, decoder, encoder, mu, globalEncoder, ext, globalMu, procs >>

\* SetGlobalB64Encoder storing its argument as the decoder too.
SetGlobalB64EncoderBoth(enc) ==
  /\ globalEncoder' = enc
  /\ globalDecoder' = enc
  /\ setLog' = [setLog EXCEPT !.genc = enc]
  /\ last' = Call("SetGlobalB64Encoder", "none", CodecVal(enc), "nil", "returned", NoVal)
  /\ UNCHANGED << heap, data, decoder, encoder, mu, ext, globalMu, procs >>

SetGlobalB64Encoder(enc) ==
  /\ globalEncoder' = enc
  /\ setLog' = [setLog EXCEPT !.genc = enc]
  /\ last' = Call("SetGlobalB64Encoder", "none", CodecVal(enc), "nil", "returned", NoVal)
  /\ UNCHANGED << heap, data, decoder, encoder, mu, globalDecoder, ext, globalMu, procs >>

GlobalB64Decoder ==
  /\ last' = Call("GlobalB64Decoder", "none", NoVal, "nil", "returned", CodecVal(globalDecoder))
  /\ UNCHANGED << heap, data, decoder, encoder, mu, globalDecoder, globalEncoder, ext, setLog, globalMu, procs >>

GlobalB64Encoder ==
  /\ last' = Call("GlobalB64Encoder", "none", NoVal, "nil", "returned", CodecVal(globalEncoder))
  /\ UNCHANGED << heap, data, decoder, encoder, mu, globalDecoder, globalEncoder, ext, setLog, globalMu, procs >>

\* ------------------------------------------------------------ the inputs

\* The byte values the callers use: 0 encodes to 'A's, 251 brings in the
\* characters 62 and 63 of the alphabets ("+w==", "+/s=", "-_s=", ...).
ByteVals == {0, 251}

BoundedSeqs(S, n) == UNION {[1..k -> S] : k \in 0..n}

\* --------------------------------------------- specification: storage

\* The []byte values passed to SetBytes and AcceptValue.
StorePayloads == BoundedSeqs(ByteVals, MaxData)

\* Texts handed to UnmarshalJSON: "AA==" (1 byte in a 3-byte array), "-_s"
\* (2 bytes), "AAAA" (3 bytes), the JSON null, a text that is no string
\* literal (AA), and two literals the default decoder rejects ("A",
\* "AA=A").
StoreTexts == { JSONQuote(<< 65, 65, 61, 61 >>), JSONQuote(<< 45, 95, 115 >>),
                JSONQuote(<< 65, 65, 65, 65 >>), JSONNull, << 65, 65 >>,
                JSONQuote(<< 65 >>), JSONQuote(<< 65, 65, 61, 65 >>) }

\* Strings handed to AcceptValue: AA==, -_s, A (rejected), and "AA" with
\* its quotes (rejected: a quote is in no alphabet).
StoreStrings == { << 65, 65, 61, 61 >>, << 45, 95, 115 >>, << 65 >>,
                  JSONQuote(<< 65, 65 >>) }

StoreIns == {InBuffer(c) : c \in Bufs \cup {NilBuf}}
            \cup {InBytes(ArgLit(p)) : p \in StorePayloads}
            \cup {InString(t) : t \in StoreStrings}
            \cup {InOther("int")}

\* Buffer "a" takes every operation; Buffer "b" is the other Buffer handed
\* to a.AcceptValue, filled by SetBytes and locked by its own AcceptValue.
NextStore ==
  \/ \E b \in Bufs, p \in StorePayloads : SetBytes(b, ArgLit(p))
  \/ \E b \in {"a", NilBuf} : Bytes(b)
  \/ \E b \in {"a", NilBuf} : Len_(b)
  \/ \E t \in StoreTexts : UnmarshalJSON("a", t)
  \/ UnmarshalJSON(NilBuf, JSONQuote(<< 65, 65, 61, 61 >>))
  \/ MarshalJSON("a")
  \/ \E dec \in {Nil, "Std"} : SetB64Decoder("a", dec)
  \/ \E in \in StoreIns : AcceptValue("a", in)
  \/ AcceptValue("b", InOther("int"))

SpecStore == Init /\ [][NextStore]_vars

\* The bytes Bytes() of Buffer b yields, and Len().
BufBytes(b) == SliceBytes(heap, data[b])
BufLen(b)   == data[b].len

\* The last call took its receiver's lock and ran its body.
BodyRan == last.at \in {"returned", "defer"}

\* C2: after SetBytes(data) returns, whatever the Buffer held before, Len()
\* is len(data) and Bytes() is data, byte for byte.
C2_SetBytesStoresData ==
  (last.op = "SetBytes" /\ last.at = "returned")
    => (BufLen(last.recv) = Len(last.arg.bytes) /\ BufBytes(last.recv) = last.arg.bytes)

\* C3: every call of AcceptValue that got the Buffer's lock returns to its
\* caller and leaves the lock free.
C3_AcceptValueReturns ==
  (last.op = "AcceptValue" /\ last.at # "entry")
    => (last.at = "returned" /\ CanLock(mu[last.recv]))

\* C4: a step in which UnmarshalJSON or AcceptValue comes to an error leaves
\* the receiver's stored bytes, its decoder and its encoder as they were.
FailedStep ==
  /\ last'.op \in {"UnmarshalJSON", "AcceptValue"}
  /\ last'.err \in {"json", "decode", "type"}

C4_NoMutationOnFailure ==
  [][FailedStep =>
       /\ SliceBytes(heap', data'[last'.recv]) = SliceBytes(heap, data[last'.recv])
       /\ data'[last'.recv].len = data[last'.recv].len
       /\ Cap(heap', data'[last'.recv]) = Cap(heap, data[last'.recv])
       /\ decoder' = decoder
       /\ encoder' = encoder]_vars

\* C4's case: UnmarshalJSON was refused by the decoder on a Buffer that
\* holds bytes.
C4_Witness ==
  /\ last.op = "UnmarshalJSON" /\ last.err = "decode"
  /\ BufBytes(last.recv) = << 251, 251 >>

\* What UnmarshalJSON makes of a text for a Buffer whose resolved decoder is
\* dec: r is what the decoder returns for the unquoted text.
SameOutcome(b, err, r) ==
  /\ (err = "nil") <=> ~r.err
  /\ ~r.err => BufBytes(b) = r.buf

UnmarshalOutcome(b, err, dec, raw) ==
  raw.ok /\ SameOutcome(b, err, DecodeString(dec, raw.s))

\* C7: AcceptValue dispatches on the type of its argument.  Given a *Buffer
\* the receiver ends with bytes equal to the argument's; given a []byte it
\* ends as after SetBytes, holding those bytes; given a string s its outcome
\* is that of UnmarshalJSON on the JSON-quoted s; given another type the
\* error names that type.
C7_AcceptValueDispatch ==
  (last.op = "AcceptValue" /\ BodyRan) =>
    /\ last.arg.kind = "buffer" =>
         /\ BufBytes(last.recv) = (IF last.arg.buf = NilBuf THEN << >> ELSE BufBytes(last.arg.buf))
         /\ last.err = "nil"
    /\ last.arg.kind = "bytes" =>
         /\ BufBytes(last.recv) = last.arg.bytes
         /\ BufLen(last.recv) = Len(last.arg.bytes)
         /\ last.err = "nil"
    /\ last.arg.kind = "string" =>
         UnmarshalOutcome(last.recv, last.err,
                          b64DecoderNoLock(decoder[last.recv], globalDecoder),
                          JSONUnmarshalString(JSONQuote(last.arg.s)))
    /\ last.arg.kind = "other" => (last.err = "type" /\ last.out = TypeVal(last.arg.type))

\* C8: on a nil *Buffer Bytes() returns nil, Len() returns 0 and
\* UnmarshalJSON returns the nil-receiver error, touching nothing; on a
\* Buffer with no codec of its own and a free lock (the zero value is one)
\* Bytes, Len, MarshalJSON and UnmarshalJSON return without a panic.
NilReceiverSafe ==
  /\ (last.recv = NilBuf /\ last.op = "Bytes") => (last.at = "returned" /\ last.out = NilSlice)
  /\ (last.recv = NilBuf /\ last.op = "Len") => (last.at = "returned" /\ last.out = IntVal(0))
  /\ (last.recv = NilBuf /\ last.op = "UnmarshalJSON")
       => (last.at = "returned" /\ last.err = "nilrecv")

ZeroValueSafe ==
  (/\ last.recv \in Bufs
   /\ last.op \in {"Bytes", "Len", "MarshalJSON", "UnmarshalJSON"}
   /\ decoder[last.recv] = Nil /\ encoder[last.recv] = Nil
   /\ CanLock(mu[last.recv]))
    => (last.at = "returned" /\ last.err # "panic")

NilReceiverStep == last'.recv = NilBuf

C8_NullSafety ==
  /\ [](NilReceiverSafe /\ ZeroValueSafe)
  /\ [][NilReceiverStep =>
          UNCHANGED << heap, data, decoder, encoder, mu, globalDecoder, globalEncoder, ext >>]_vars

\* C8's case: UnmarshalJSON on a nil *Buffer has returned its error while
\* Buffer "a", UnmarshalJSON on the zero value before it, holds what "AA=="
\* decodes to.
C8_Witness ==
  /\ last.op = "UnmarshalJSON" /\ last.recv = NilBuf /\ last.err = "nilrecv"
  /\ decoder["a"] = Nil /\ encoder["a"] = Nil
  /\ BufBytes("a") = << 0 >> /\ Cap(heap, data["a"]) = 3

\* ------------------------------------------------- decoding by heuristic

\* The byte sequences encoded: none, and up to MaxLen bytes of 0 and 251
\* (251, 251 encodes to "+/s" or "-_s", 0 to "AA==" or "AA").
DecodePayloads == BoundedSeqs(ByteVals, MaxLen)

\* The texts unmarshalled: strconv.Quote of each encoding of each payload,
\* as in TestAll/Decode, and two texts every decoder rejects.
DecodeTexts == {JSONQuote(EncodeToString(enc, p)) : enc \in Encodings, p \in DecodePayloads}
               \cup {JSONQuote(<< 65 >>), << 65, 65 >>}

NextDecode ==
  \/ \E t \in DecodeTexts : UnmarshalJSON("a", t)
  \/ \E dec \in {Nil, "URL"} : SetB64Decoder("a", dec)
  \/ \E dec \in {DefaultDec, "RawStd"} : SetGlobalB64Decoder(dec)

SpecDecode == Init /\ [][NextDecode]_vars

\* UnmarshalJSON has returned from unmarshalling text into a Buffer that has
\* no decoder of its own while the registry holds the initial decoder.
HeuristicUnmarshal(text) ==
  /\ last.op = "UnmarshalJSON" /\ last.at = "returned"
  /\ last.recv \in Bufs
  /\ decoder[last.recv] = Nil /\ globalDecoder = DefaultDec
  /\ last.arg = BytesVal(text)

\* C1: for every byte sequence B and each of Std, RawStd, URL and RawURL,
\* UnmarshalJSON of the JSON-quoted encoding of B on a Buffer with no decoder
\* of its own and the initial global decoder returns no error and leaves
\* Bytes() equal to B.
C1_HeuristicCorrect ==
  \A enc \in Encodings, B \in DecodePayloads :
    HeuristicUnmarshal(JSONQuote(EncodeToString(enc, B)))
      => (last.err = "nil" /\ BufBytes(last.recv) = B /\ BufLen(last.recv) = Len(B))

\* C1's case: "+/s", the RawStd encoding of 251, 251, has been unmarshalled
\* by the heuristic.
C1_Witness ==
  /\ HeuristicUnmarshal(JSONQuote(EncodeToString("RawStd", << 251, 251 >>)))
  /\ BufBytes("a") = << 251, 251 >>
  /\ last.err = "nil"

\* ------------------------------------------------------------ round trip

\* The byte sequences given to SetBytes before marshalling.
RoundPayloads == BoundedSeqs(ByteVals, MaxLen)

\* TestAll/Encode, followed by unmarshalling what was marshalled: Buffer "a"
\* is given bytes and an encoder and marshalled, Buffer "b" is given a
\* decoder and unmarshals the text json.Marshal returned.
NextRoundTrip ==
  \/ \E p \in RoundPayloads : SetBytes("a", ArgLit(p))
  \/ \E enc \in Encodings : SetEncoder("a", enc)
  \/ MarshalJSON("a")
  \/ \E dec \in Encodings : SetB64Decoder("b", dec)
  \/ (last.op = "MarshalJSON" /\ UnmarshalJSON("b", last.out.bytes))

SpecRoundTrip == Init /\ [][NextRoundTrip]_vars

\* MarshalJSON right after SetBytes(B) on the same Buffer, whose encoder is
\* one of the four encodings.
MarshalAfterSetBytes ==
  /\ last.op = "SetBytes" /\ last.at = "returned"
  /\ last'.op = "MarshalJSON" /\ last'.recv = last.recv
  /\ encoder[last.recv] \in Encodings

\* UnmarshalJSON of text by a Buffer whose own decoder is dec.
UnmarshalWith(dec, text) ==
  /\ last'.op = "UnmarshalJSON" /\ last'.recv \in Bufs
  /\ decoder[last'.recv] = dec
  /\ last'.arg = BytesVal(text)

\* C5: a Buffer given SetBytes(B) and an encoder V marshals to the
\* JSON-quoted V-encoding of B, and UnmarshalJSON of that text by a Buffer
\* whose own decoder is V leaves it holding B.
C5_RoundTrip ==
  [][/\ MarshalAfterSetBytes
          => last'.out = BytesVal(JSONQuote(EncodeToString(encoder[last.recv], last.arg.bytes)))
     /\ \A enc \in Encodings, B \in RoundPayloads :
          UnmarshalWith(enc, JSONQuote(EncodeToString(enc, B)))
            => (last'.err = "nil" /\ SliceBytes(heap', data'[last'.recv]) = B)]_vars

\* ------------------------------------------------------- codec resolution

\* Texts that tell the decoders apart: of the decoders set below "-_s" is
\* accepted by RawURL only and "AA==" by Std and URL only; the heuristic
\* accepts both.
RegStrings == { << 45, 95, 115 >>, << 65, 65, 61, 61 >> }

\* Codecs are set and read, on Buffer "a" and in the registry, between
\* calls that use them.
NextReg ==
  \/ \E dec \in {Nil, "Std", "URL"} : SetB64Decoder("a", dec)
  \/ \E enc \in {Nil, "URL"} : SetEncoder("a", enc)
  \/ \E dec \in {DefaultDec, "RawURL"} : SetGlobalB64Decoder(dec)
  \/ \E enc \in {"Std", "RawStd"} : SetGlobalB64Encoder(enc)
  \/ GlobalB64Decoder
  \/ GlobalB64Encoder
  \/ B64Decoder("a")
  \/ B64Encoder("a")
  \/ \E t \in RegStrings : UnmarshalJSON("a", JSONQuote(t))
  \/ MarshalJSON("a")
  \/ \E t \in RegStrings : AcceptValue("a", InString(t))

SpecReg == Init /\ [][NextReg]_vars

\* The codec the calls made so far select for Buffer b: the argument of the
\* last SetB64Decoder / SetEncoder on b if that was not nil, else the
\* argument of the last SetGlobalB64Decoder / SetGlobalB64Encoder (what
\* init() set, before any).
SelectedDecoder(b) == IF setLog.dec[b] # Nil THEN setLog.dec[b] ELSE setLog.gdec
SelectedEncoder(b) == IF setLog.enc[b] # Nil THEN setLog.enc[b] ELSE setLog.genc

\* C6: the codec a call uses or returns is the Buffer's own codec if the
\* last per-instance set was non-nil and otherwise the global codec as it
\* is at the time of the call: B64Decoder() and B64Encoder() return it,
\* UnmarshalJSON and AcceptValue accept or reject and store as it decodes,
\* MarshalJSON returns what it encodes.
C6_ResolvedAtEachCall ==
  /\ (last.op = "B64Decoder" /\ last.at = "returned")
       => last.out = CodecVal(SelectedDecoder(last.recv))
  /\ (last.op = "B64Encoder" /\ last.at = "returned")
       => last.out = CodecVal(SelectedEncoder(last.recv))
  /\ (last.op = "UnmarshalJSON" /\ last.at = "returned" /\ last.err \in {"nil", "decode"})
       => /\ last.out = CodecVal(SelectedDecoder(last.recv))
          /\ SameOutcome(last.recv, last.err,
                         DecodeString(SelectedDecoder(last.recv),
                                      JSONUnmarshalString(last.arg.bytes).s))
  /\ (last.op = "AcceptValue" /\ BodyRan /\ last.arg.kind = "string")
       => SameOutcome(last.recv, last.err,
                      DecodeString(SelectedDecoder(last.recv), last.arg.s))
  /\ last.op = "MarshalJSON"
       => last.out = BytesVal(JSONQuote(EncodeToString(SelectedEncoder(last.recv),
                                                       BufBytes(last.recv))))

\* C6's case: Buffer "a", the last decoder set on it being nil, has
\* unmarshalled "-_s" with the RawURL decoder the registry holds now.
C6_Witness ==
  /\ last.op = "UnmarshalJSON" /\ last.err = "nil"
  /\ last.arg = BytesVal(JSONQuote(<< 45, 95, 115 >>))
  /\ setLog.dec["a"] = Nil /\ setLog.gdec = "RawURL"
  /\ last.out = CodecVal("RawURL")
  /\ BufBytes("a") = << 251, 251 >>

\* C10: GlobalB64Decoder() and GlobalB64Encoder() return the argument of the
\* most recent call to their own setter, the heuristic decoder and
\* base64.StdEncoding before any call, and a call to one setter does not
\* change what the other getter returns.
GetAfterSet ==
  /\ last.op = "GlobalB64Decoder" => last.out = CodecVal(setLog.gdec)
  /\ last.op = "GlobalB64Encoder" => last.out = CodecVal(setLog.genc)
  /\ globalDecoder = setLog.gdec
  /\ globalEncoder = setLog.genc

\* Holds of the state init() leaves.
InitialCodecs == globalDecoder = DefaultDec /\ globalEncoder = "Std"

\* Only its own setter changes a default.
OwnSetterOnly ==
  /\ globalDecoder' # globalDecoder => last'.op = "SetGlobalB64Decoder"
  /\ globalEncoder' # globalEncoder => last'.op = "SetGlobalB64Encoder"

C10_RegistryGetAfterSet ==
  /\ InitialCodecs
  /\ []GetAfterSet
  /\ [][OwnSetterOnly]_vars

\* C10's case: both setters have been called, the encoder's last, and
\* GlobalB64Decoder() returns the RawURL decoder given to its own setter.
C10_Witness ==
  /\ last.op = "GlobalB64Decoder" /\ last.out = CodecVal("RawURL")
  /\ setLog.genc = "RawStd" /\ globalEncoder = "RawStd"

\* ---------------------------------------------------------------- aliasing

\* What the caller puts in the []byte it makes.
AliasPayloads == BoundedSeqs(ByteVals, MaxData) \ {<< >>}

\* The caller makes a []byte, changes it in place, and hands it to New and
\* to SetBytes; the Buffers are unmarshalled into ("+w==" is 251) and accept
\* each other.
NextAlias ==
  \/ \E p \in AliasPayloads : CallerMake(p)
  \/ \E i \in 1..MaxData, v \in ByteVals : CallerWrite(i, v)
  \/ \E b \in Bufs : New(b)
  \/ \E b \in Bufs : SetBytes(b, ArgExt)
  \/ \E b \in Bufs : UnmarshalJSON(b, JSONQuote(<< CharPlus, 119, PadChar, PadChar >>))
  \/ \E b \in Bufs : \E c \in Bufs \ {b} : AcceptValue(b, InBuffer(c))

SpecAlias == Init /\ [][NextAlias]_vars

\* The slices of the program: the Buffers' data and the caller's slice.
Holders == Bufs \cup {"caller"}
SliceOf(d, e, x) == IF x = "caller" THEN e ELSE d[x]

\* Two slices share storage: they are over the same array.
Shares(s, t) == s.arr # 0 /\ s.arr = t.arr

\* The call that has just run its body copied into its receiver: SetBytes
\* on the caller's slice, AcceptValue on another Buffer.
IngestedCaller(call) ==
  call.op = "SetBytes" /\ call.at = "returned" /\ call.arg.kind = "ext"

IngestedBuffer(call) ==
  /\ call.op = "AcceptValue" /\ call.at \in {"returned", "defer"}
  /\ call.arg.kind = "buffer" /\ call.arg.buf \in Bufs \ {call.recv}

\* C9: after dst.SetBytes(data), and after dst.AcceptValue(src) with src
\* another Buffer, the receiver's buffer shares no storage with the source.
C9_NeverAliases ==
  /\ IngestedCaller(last) => ~Shares(data[last.recv], ext)
  /\ IngestedBuffer(last) => ~Shares(data[last.recv], data[last.arg.buf])

\* The slice a step writes to or replaces: its receiver's, else the
\* caller's.
Written(call) == IF call.recv \in Bufs THEN call.recv ELSE "caller"

\* A step changes the bytes of no slice that shared no storage with the
\* slice it writes to.
FrameOfWrite ==
  \A y \in Holders \ {Written(last')} :
    ~Shares(SliceOf(data, ext, Written(last')), SliceOf(data, ext, y))
      => SliceBytes(heap', SliceOf(data', ext', y)) = SliceBytes(heap, SliceOf(data, ext, y))

\* C9, given no sharing before the call: SetBytes(data) and AcceptValue(src)
\* on a receiver whose buffer did not share storage with the source before
\* the call leave it sharing none after, and a write to one slice changes the bytes of no
\* slice it shares no storage with: later writes to the source leave the
\* receiver's Bytes() unchanged, and the reverse.
C9_CopiesUnlessShared ==
  [][/\ (IngestedCaller(last') /\ ~Shares(data[last'.recv], ext))
          => ~Shares(data'[last'.recv], ext')
     /\ (IngestedBuffer(last') /\ ~Shares(data[last'.recv], data[last'.arg.buf]))
          => ~Shares(data'[last'.recv], data'[last'.arg.buf])
     /\ FrameOfWrite]_vars

\* C9's case: SetBytes has copied the caller's slice, holding 251, into
\* Buffer "a", whose buffer now is an array of its own.
C9_Witness ==
  /\ IngestedCaller(last) /\ last.recv = "a"
  /\ BufBytes("a") = << 251 >> /\ SliceBytes(heap, ext) = << 251 >>
  /\ data["a"].arr # 0 /\ ext.arr # 0 /\ ~Shares(data["a"], ext)

\* ------------------------------------------------- the default decoder

\* The texts decoded: up to MaxText characters of 'A', the four characters
\* in which the alphabets differ, '=' and line feed (which base64 decoding
\* skips, but strings.HasSuffix does not).
HeurChars == {65, CharPlus, CharSlash, CharMinus, CharUnder, PadChar, CharLF}
HeurTexts == BoundedSeqs(HeurChars, MaxText)

\* The caller holds one of the texts.
InitHeuristic ==
  InitState /\ \E t \in HeurTexts : last = Call("string", "none", BytesVal(t), "nil", "returned", NoVal)

\* GlobalB64Decoder().DecodeString(s), s being the text the caller holds:
\* B64DecoderFunc.DecodeString calls defaultDecodeString.
GlobalDecodeString ==
  /\ last.op = "string"
  /\ last' = Call("DecodeString", "none", last.arg, "nil", "returned",
                  DecodedVal(DecodeString(globalDecoder, last.arg.bytes)))
  /\ UNCHANGED << heap, data, decoder, encoder, mu, globalDecoder, globalEncoder, ext, setLog, globalMu, procs >>

NextHeuristic == GlobalDecodeString

SpecHeuristic == InitHeuristic /\ [][NextHeuristic]_vars

\* The two tests of the text, and the encoding they select.
EndsWithPad(t)    == t # << >> /\ t[Len(t)] = PadChar
HasPlusOrSlash(t) == \E i \in 1..Len(t) : t[i] = CharPlus \/ t[i] = CharSlash

SelectedEncoding(t) ==
  IF EndsWithPad(t) THEN (IF HasPlusOrSlash(t) THEN "Std" ELSE "URL")
  ELSE (IF HasPlusOrSlash(t) THEN "RawStd" ELSE "RawURL")

\* C12: the default decoder selects one encoding from two independent tests
\* of the text, padded iff its last character is '=' and standard alphabet
\* iff it contains '+' or '/', and returns what that encoding's
\* DecodeString returns, bytes or failure, trying no other encoding.
C12_HeuristicSelection ==
  last.op = "DecodeString"
    => last.out = DecodedVal(EncDecodeString(SelectedEncoding(last.arg.bytes), last.arg.bytes))

\* C12's case: "AA==" followed by a line feed does not end in '=', so
\* RawURL is selected and fails on '=', though base64.StdEncoding decodes
\* the text to the byte 0.
C12_Witness ==
  /\ last.op = "DecodeString"
  /\ last.arg = BytesVal(<< 65, 65, PadChar, PadChar, CharLF >>)
  /\ last.out.decoded.err
  /\ ~EncDecodeString("Std", last.arg.bytes).err

\* ------------------------------------------------------------ sync.RWMutex

\* The locks: each Buffer's mu, named by the Buffer, and the registry's.
GlobalLock == "globalMu"
LockState(l) == IF l = GlobalLock THEN globalMu ELSE mu[l]

SetLock(l, m) ==
  /\ mu' = IF l = GlobalLock THEN mu ELSE [mu EXCEPT ![l] = m]
  /\ globalMu' = IF l = GlobalLock THEN m ELSE globalMu

\* A caller inside Lock() of l has taken the writers' mutex rw.w and
\* announced itself, and waits for the active readers to leave ("wann").
Announced(l) == \E t \in Callers : procs[t].at = "wann" /\ procs[t].on = l

\* rw.w is taken: a writer holds l or is announced.  RLock() blocks then,
\* and so does the next Lock().
WriterIn(l) == LockState(l).w \/ Announced(l)

\* Where a call goes on once it has the lock.
Resume(l) == IF l = GlobalLock THEN "gin" ELSE "in"

Holding(pr, l, mode) ==
  [pr EXCEPT !.at = Resume(l), !.on = "none",
             !.held = Append(@, [lock |-> l, mode |-> mode])]

Waiting(pr, l, at) == [pr EXCEPT !.at = at, !.on = l]

\* rw.RLock() by caller t, whose record is pr: it blocks ("rblk") behind a
\* writer that holds the lock or is announced.
RLock(t, pr, l) ==
  IF WriterIn(l)
    THEN /\ procs' = [procs EXCEPT ![t] = Waiting(pr, l, "rblk")]
         /\ UNCHANGED << mu, globalMu >>
    ELSE /\ procs' = [procs EXCEPT ![t] = Holding(pr, l, "r")]
         /\ SetLock(l, [LockState(l) EXCEPT !.r = @ + 1])

\* Caller t has the lock l for writing.
Acquire(t, pr, l) ==
  /\ procs' = [procs EXCEPT ![t] = Holding(pr, l, "w")]
  /\ SetLock(l, [LockState(l) EXCEPT !.w = TRUE])

\* rw.Lock() by caller t: it waits for rw.w ("wq"), then for the active
\* readers ("wann").
Lock(t, pr, l) ==
  IF WriterIn(l)
    THEN /\ procs' = [procs EXCEPT ![t] = Waiting(pr, l, "wq")]
         /\ UNCHANGED << mu, globalMu >>
  ELSE IF LockState(l).r > 0
    THEN /\ procs' = [procs EXCEPT ![t] = Waiting(pr, l, "wann")]
         /\ UNCHANGED << mu, globalMu >>
  ELSE Acquire(t, pr, l)

\* The held locks without the one taken last.
Released(pr) == [pr EXCEPT !.held = SubSeq(@, 1, Len(@) - 1)]

\* rw.RUnlock() of l by caller t, whose record becomes pr.
RUnlock(t, pr, l) ==
  /\ procs' = [procs EXCEPT ![t] = Released(pr)]
  /\ SetLock(l, [LockState(l) EXCEPT !.r = @ - 1])

\* rw.Unlock() of l by caller t: the readers blocked behind the writer all
\* become active readers.
BlockedReaders(l) == {u \in Callers : procs[u].at = "rblk" /\ procs[u].on = l}

Unlock(t, pr, l) ==
  /\ procs' = [u \in Callers |->
                 IF u = t THEN Released(pr)
                 ELSE IF u \in BlockedReaders(l) THEN Holding(procs[u], l, "r")
                 ELSE procs[u]]
  /\ SetLock(l, [w |-> FALSE, r |-> Cardinality(BlockedReaders(l) \ {t})])

\* A caller waiting inside Lock() goes on: from "wq" when rw.w is free,
\* from "wann" when the last active reader has left.
LockGranted(t) ==
  /\ procs[t].at \in {"wq", "wann"}
  /\ IF procs[t].at = "wq"
       THEN ~WriterIn(procs[t].on) /\ Lock(t, procs[t], procs[t].on)
       ELSE LockState(procs[t].on).r = 0 /\ Acquire(t, procs[t], procs[t].on)
  /\ UNCHANGED << heap, data, decoder, encoder, globalDecoder, globalEncoder, ext, last, setLog >>

\* ------------------------------------------------ callers sharing a Buffer

\* A call by one of the callers goes through the positions of its code:
\* waiting for a lock ("rblk", "wq", "wann"), the body with b.mu taken
\* ("in", then "copy", "dec" or "out"), the registry with globalMu taken
\* ("gin"), and back to "idle" when it returns.
Start(op, b, arg) == [IdleProc EXCEPT !.op = op, !.recv = b, !.arg = arg]
Done(pr) == [IdleProc EXCEPT !.held = pr.held]
At(t, op, b, arg, at) ==
  /\ procs[t].at = at
  /\ procs[t].op = op
  /\ procs[t].recv = b
  /\ procs[t].arg = arg
Idle(t) == procs[t].at = "idle"
Goes(t, pr) == procs' = [procs EXCEPT ![t] = pr] /\ UNCHANGED << mu, globalMu >>

\* The arrays a MarshalJSON in progress refers to through its copy of the
\* Buffer.
Snapshots(p) ==
  {p[t].tmp.slice.arr : t \in {u \in Callers : p[u].op = "MarshalJSON" /\ p[u].at # "idle"}}

\* The memory after a step of a caller: st is [heap, data].
SharedMem(st) ==
  /\ data' = st.data
  /\ heap' = Collect(st.heap, data', Snapshots(procs'))

NoMem == [heap |-> heap, data |-> data]

\* (*Buffer).Bytes() and (*Buffer).Len(): RLock, the read, RUnlock.
SharedRead(t, op, b) ==
  \/ /\ Idle(t)
     /\ RLock(t, Start(op, b, NoVal), b)
  \/ /\ At(t, op, b, NoVal, "in")
     /\ RUnlock(t, Done(procs[t]), b)

SharedBytes(t, b) ==
  /\ SharedRead(t, "Bytes", b)
  /\ UNCHANGED << heap, data, decoder, encoder, globalDecoder, globalEncoder, ext, last, setLog >>

SharedLen(t, b) ==
  /\ SharedRead(t, "Len", b)
  /\ UNCHANGED << heap, data, decoder, encoder, globalDecoder, globalEncoder, ext, last, setLog >>

\* b.data = make([]byte, l), m being the allocation.
Made(m, b, l) ==
  [heap |-> m.heap, data |-> [data EXCEPT ![b] = [arr |-> m.slice.arr, len |-> l]]]

\* (*Buffer).SetBytes(p): Lock; b.data = make(...) when cap(b.data) is too
\* small; copy; Unlock.
SharedSetBytes(t, b, p) ==
  /\ \/ /\ Idle(t)
        /\ Lock(t, Start("SetBytes", b, BytesVal(p)), b)
        /\ UNCHANGED << heap, data >>
     \/ /\ At(t, "SetBytes", b, BytesVal(p), "in")
        /\ Goes(t, [procs[t] EXCEPT !.at = "copy"])
        /\ SharedMem(IF Cap(heap, data[b]) < Len(p)
                       THEN Made(Alloc(heap, data, Snapshots(procs), << >>, Len(p)), b, Len(p))
                       ELSE NoMem)
     \/ /\ At(t, "SetBytes", b, BytesVal(p), "copy")
        /\ Unlock(t, Done(procs[t]), b)
        /\ SharedMem([heap |-> copy(heap, data[b], p), data |-> data])
  /\ UNCHANGED << decoder, encoder, globalDecoder, globalEncoder, ext, last, setLog >>

\* (*Buffer).UnmarshalJSON(text): Lock; json.Unmarshal; the decoder, from
\* the registry under globalMu when the Buffer has none; DecodeString and
\* the assignment; Unlock.
SharedUnmarshalJSON(t, b, text) ==
  /\ \/ /\ Idle(t)
        /\ Lock(t, Start("UnmarshalJSON", b, BytesVal(text)), b)
        /\ UNCHANGED << heap, data >>
     \/ /\ At(t, "UnmarshalJSON", b, BytesVal(text), "in")
        /\ IF ~JSONUnmarshalString(text).ok THEN Unlock(t, Done(procs[t]), b)
           ELSE IF decoder[b] # Nil
             THEN Goes(t, [procs[t] EXCEPT !.at = "dec", !.tmp = CodecVal(decoder[b])])
           ELSE RLock(t, procs[t], GlobalLock)
        /\ UNCHANGED << heap, data >>
     \/ /\ At(t, "UnmarshalJSON", b, BytesVal(text), "gin")
        /\ RUnlock(t, [procs[t] EXCEPT !.at = "dec", !.tmp = CodecVal(globalDecoder)], GlobalLock)
        /\ UNCHANGED << heap, data >>
     \/ /\ At(t, "UnmarshalJSON", b, BytesVal(text), "dec")
        /\ Unlock(t, Done(procs[t]), b)
        /\ SharedMem(decodeAndSetStringNoLock(heap, data, Snapshots(procs), b,
                                              procs[t].tmp.codec, JSONUnmarshalString(text).s))
  /\ UNCHANGED << decoder, encoder, globalDecoder, globalEncoder, ext, last, setLog >>

\* (*Buffer).B64Decoder() and (*Buffer).B64Encoder(): RLock; the Buffer's
\* own codec, or the registry's under globalMu; RUnlock.
SharedCodec(t, op, b, own) ==
  \/ /\ Idle(t)
     /\ RLock(t, Start(op, b, NoVal), b)
  \/ /\ At(t, op, b, NoVal, "in")
     /\ IF own # Nil THEN RUnlock(t, Done(procs[t]), b)
        ELSE RLock(t, procs[t], GlobalLock)
  \/ /\ At(t, op, b, NoVal, "gin")
     /\ RUnlock(t, [procs[t] EXCEPT !.at = "out"], GlobalLock)
  \/ /\ At(t, op, b, NoVal, "out")
     /\ RUnlock(t, Done(procs[t]), b)

SharedB64Decoder(t, b) ==
  /\ SharedCodec(t, "B64Decoder", b, decoder[b])
  /\ UNCHANGED << heap, data, decoder, encoder, globalDecoder, globalEncoder, ext, last, setLog >>

SharedB64Encoder(t, b) ==
  /\ SharedCodec(t, "B64Encoder", b, encoder[b])
  /\ UNCHANGED << heap, data, decoder, encoder, globalDecoder, globalEncoder, ext, last, setLog >>

\* A setter deferring b.mu.Lock() where it should defer b.mu.Unlock().
SharedSetCodecRelocking(t, op, b, c) ==
  \/ /\ Idle(t)
     /\ Lock(t, Start(op, b, CodecVal(c)), b)
  \/ /\ At(t, op, b, CodecVal(c), "in")
     /\ Lock(t, procs[t], b)

\* (*Buffer).SetB64Decoder(dec) and (*Buffer).SetEncoder(enc): Lock, the
\* assignment, Unlock.
SharedSetCodec(t, op, b, c) ==
  \/ /\ Idle(t)
     /\ Lock(t, Start(op, b, CodecVal(c)), b)
  \/ /\ At(t, op, b, CodecVal(c), "in")
     /\ Unlock(t, Done(procs[t]), b)

SharedSetB64Decoder(t, b, dec) ==
  /\ SharedSetCodec(t, "SetB64Decoder", b, dec)
  /\ decoder' = IF Idle(t) THEN decoder ELSE [decoder EXCEPT ![b] = dec]
  /\ UNCHANGED << heap, data, encoder, globalDecoder, globalEncoder, ext, last, setLog >>

SharedSetEncoder(t, b, enc) ==
  /\ SharedSetCodec(t, "SetEncoder", b, enc)
  /\ encoder' = IF Idle(t) THEN encoder ELSE [encoder EXCEPT ![b] = enc]
  /\ UNCHANGED << heap, data, decoder, globalDecoder, globalEncoder, ext, last, setLog >>

\* (Buffer).MarshalJSON(): the call copies the Buffer, its data slice and
\* encoder field with it, and takes no lock; the encoder comes from the
\* registry under globalMu when the copy has none; EncodeToString reads
\* the bytes of the copy's slice, and what it yields goes to the caller
\* alone.
SharedMarshalJSON(t, b) ==
  /\ \/ /\ Idle(t)
        /\ Goes(t, [Start("MarshalJSON", b, NoVal) EXCEPT
                      !.at = "in", !.tmp = [slice |-> data[b], codec |-> encoder[b]]])
        /\ UNCHANGED << heap, data >>
     \/ /\ At(t, "MarshalJSON", b, NoVal, "in")
        /\ IF procs[t].tmp.codec # Nil THEN Goes(t, [procs[t] EXCEPT !.at = "enc"])
           ELSE RLock(t, procs[t], GlobalLock)
        /\ UNCHANGED << heap, data >>
     \/ /\ At(t, "MarshalJSON", b, NoVal, "gin")
        /\ RUnlock(t, [procs[t] EXCEPT !.at = "enc", !.tmp.codec = globalEncoder], GlobalLock)
        /\ UNCHANGED << heap, data >>
     \/ /\ At(t, "MarshalJSON", b, NoVal, "enc")
        /\ Goes(t, IdleProc)
        /\ SharedMem(NoMem)
  /\ UNCHANGED << decoder, encoder, globalDecoder, globalEncoder, ext, last, setLog >>

\* (*Buffer).AcceptValue(in) with an in of a type it does not take: Lock;
\* the switch fails; the deferred b.mu.Lock() waits for the lock the call
\* itself holds.
SharedAcceptValue(t, b, in) ==
  /\ in.kind = "other"
  /\ \/ /\ Idle(t)
        /\ Lock(t, Start("AcceptValue", b, TypeVal(in.type)), b)
     \/ /\ At(t, "AcceptValue", b, TypeVal(in.type), "in")
        /\ Lock(t, procs[t], b)
  /\ UNCHANGED << heap, data, decoder, encoder, globalDecoder, globalEncoder, ext, last, setLog >>

\* GlobalB64Decoder() and GlobalB64Encoder(): globalMu.RLock, the read,
\* RUnlock.
SharedGlobalGet(t, op) ==
  \/ /\ Idle(t)
     /\ RLock(t, Start(op, "none", NoVal), GlobalLock)
  \/ /\ At(t, op, "none", NoVal, "gin")
     /\ RUnlock(t, Done(procs[t]), GlobalLock)

SharedGlobalB64Decoder(t) ==
  /\ SharedGlobalGet(t, "GlobalB64Decoder")
  /\ UNCHANGED << heap, data, decoder, encoder, globalDecoder, globalEncoder, ext, last, setLog >>

SharedGlobalB64Encoder(t) ==
  /\ SharedGlobalGet(t, "GlobalB64Encoder")
  /\ UNCHANGED << heap, data, decoder, encoder, globalDecoder, globalEncoder, ext, last, setLog >>

\* SetGlobalB64Decoder(dec) and SetGlobalB64Encoder(enc): globalMu.Lock,
\* the assignment, Unlock.
SharedGlobalSet(t, op, c) ==
  \/ /\ Idle(t)
     /\ Lock(t, Start(op, "none", CodecVal(c)), GlobalLock)
  \/ /\ At(t, op, "none", CodecVal(c), "gin")
     /\ Unlock(t, Done(procs[t]), GlobalLock)

SharedSetGlobalB64Decoder(t, dec) ==
  /\ SharedGlobalSet(t, "SetGlobalB64Decoder", dec)
  /\ globalDecoder' = IF Idle(t) THEN globalDecoder ELSE dec
  /\ UNCHANGED << heap, data, decoder, encoder, globalEncoder, ext, last, setLog >>

SharedSetGlobalB64Encoder(t, enc) ==
  /\ SharedGlobalSet(t, "SetGlobalB64Encoder", enc)
  /\ globalEncoder' = IF Idle(t) THEN globalEncoder ELSE enc
  /\ UNCHANGED << heap, data, decoder, encoder, globalDecoder, ext, last, setLog >>

\* ---------------------------------------------- C11: callers of one Buffer

\* Two callers share Buffer "a".  The payloads make SetBytes both grow the
\* array and copy in place; the text decodes to one byte.
SharedPayloads == {<< 0 >>, << 251, 251 >>}
SharedTexts == {JSONQuote(<< 65, 65, PadChar, PadChar >>)}

NextShared ==
  \E t \in Callers :
    \/ SharedBytes(t, "a")
    \/ SharedLen(t, "a")
    \/ \E p \in SharedPayloads : SharedSetBytes(t, "a", p)
    \/ \E text \in SharedTexts : SharedUnmarshalJSON(t, "a", text)
    \/ SharedB64Decoder(t, "a")
    \/ SharedB64Encoder(t, "a")
    \/ \E dec \in {Nil, "Std"} : SharedSetB64Decoder(t, "a", dec)
    \/ \E enc \in {Nil, "URL"} : SharedSetEncoder(t, "a", enc)
    \/ SharedMarshalJSON(t, "a")
    \/ SharedAcceptValue(t, "a", InOther("int"))
    \/ LockGranted(t)

SpecShared == Init /\ [][NextShared]_vars

ReaderOps == {"Bytes", "Len", "B64Decoder", "B64Encoder", "MarshalJSON"}
WriterOps == {"SetBytes", "UnmarshalJSON", "AcceptValue", "SetB64Decoder", "SetEncoder"}

\* The caller is in the body of a call on Buffer b: it has been called and
\* is no longer waiting to enter, and it has not returned.
InBody(pr, b) ==
  /\ pr.recv = b
  /\ pr.at # "idle"
  /\ ~(pr.on = b /\ pr.held = << >>)

Reading(t, b) == procs[t].op \in ReaderOps /\ InBody(procs[t], b)
Writing(t, b) == procs[t].op \in WriterOps /\ InBody(procs[t], b)

\* C11: while a writer (SetBytes, UnmarshalJSON, AcceptValue, SetB64Decoder,
\* SetEncoder) is inside its critical section on a Buffer, no other caller
\* is reading that Buffer (Bytes, Len, B64Decoder, B64Encoder, MarshalJSON)
\* and no other writer is inside its critical section on it.
C11_MutationAtomic ==
  \A b \in Bufs : \A t \in Callers : \A u \in Callers \ {t} :
    Writing(t, b) => ~Reading(u, b) /\ ~Writing(u, b)

\* ------------------------------------- C13: callers of Buffers and registry

\* Two callers share Buffers "a" and "b" and the registry.  A Buffer
\* without a codec of its own sends its caller to the registry with b.mu
\* held; the setters give it one and take it away again.  The texts are the
\* empty JSON string and one that is no JSON string: which bytes a text
\* decodes to plays no part in the locks its call takes.
FairPayloads == {<< 0 >>}
FairTexts == {<< CharQuote, CharQuote >>, << 65 >>}

NextOf(t) ==
  \/ \E b \in Bufs :
       \/ SharedBytes(t, b)
       \/ \E p \in FairPayloads : SharedSetBytes(t, b, p)
  \/ SharedLen(t, "a")
  \/ \E text \in FairTexts : SharedUnmarshalJSON(t, "a", text)
  \/ SharedB64Decoder(t, "a")
  \/ SharedB64Encoder(t, "a")
  \/ \E dec \in {Nil, "Std"} : SharedSetB64Decoder(t, "a", dec)
  \/ SharedSetEncoder(t, "a", "URL")
  \/ SharedGlobalB64Decoder(t)
  \/ SharedGlobalB64Encoder(t)
  \/ SharedSetGlobalB64Decoder(t, "RawURL")
  \/ SharedSetGlobalB64Encoder(t, "Std")

NextFair == \E t \in Callers : NextOf(t) \/ LockGranted(t)

\* Scheduling: a caller inside a call takes its next step (weak fairness:
\* the step stays possible until taken); a caller waiting in Lock() gets
\* the lock if it is free again and again (strong fairness: sync.Mutex
\* hands the lock to a waiter that has waited long, and an announced
\* writer keeps new readers out).  Whether an idle caller calls again is
\* left open.
Fairness ==
  \A t \in Callers :
    /\ WF_vars(~Idle(t) /\ NextOf(t))
    /\ SF_vars(LockGranted(t))

SpecFair == Init /\ [][NextFair]_vars /\ Fairness

\* The locks a caller holds or waits for, in the order it took them.
Wanted(pr) == IF pr.on = "none" THEN << >> ELSE << pr.on >>
LockSeq(pr) == [i \in DOMAIN pr.held |-> pr.held[i].lock] \o Wanted(pr)

\* Buffer lock, then registry lock: nothing is taken after globalMu, and
\* at most one Buffer lock before it.
LockOrder ==
  \A t \in Callers : \A i \in DOMAIN LockSeq(procs[t]) :
    i > 1 => LockSeq(procs[t])[i] = GlobalLock /\ LockSeq(procs[t])[i - 1] \in Bufs

\* A caller that is in no call holds no lock, and the locks are held as
\* the callers' records say.
HeldBy(l, mode) ==
  {t \in Callers : \E i \in DOMAIN procs[t].held : procs[t].held[i] = [lock |-> l, mode |-> mode]}

LocksReleased ==
  /\ \A t \in Callers : Idle(t) => procs[t].held = << >> /\ procs[t].on = "none"
  /\ \A l \in Bufs \cup {GlobalLock} :
       /\ LockState(l).r = Cardinality(HeldBy(l, "r"))
       /\ LockState(l).w = (HeldBy(l, "w") # {})
       /\ Cardinality(HeldBy(l, "w")) <= 1
       /\ HeldBy(l, "w") # {} => HeldBy(l, "r") = {}

\* C13: callers interleaving Bytes, Len, SetBytes, UnmarshalJSON,
\* B64Decoder, B64Encoder, SetB64Decoder and SetEncoder on shared Buffers
\* with the registry's getters and setters take locks only in the order
\* Buffer lock then registry lock; under fair scheduling no caller waits
\* forever: every call that has started returns, all its locks released.
C13_DeadlockFree ==
  /\ [](LockOrder /\ LocksReleased)
  /\ \A t \in Callers : ~Idle(t) ~> Idle(t)

\* B64Decoder on "a", holding a's lock for reading, waits for the registry
\* lock, which the other caller holds inside SetGlobalB64Decoder.
C13_Witness ==
  \E t \in Callers : \E u \in Callers \ {t} :
    /\ procs[t].op = "B64Decoder"
    /\ procs[t].at = "rblk"
    /\ LockSeq(procs[t]) = << "a", GlobalLock >>
    /\ procs[u].op = "SetGlobalB64Decoder"
    /\ procs[u].at = "gin"

====
